---- MODULE Spec2Model ----
(***************************************************************************)
(* pydumbinit: a minimal init process.  run() registers a handler for      *)
(* every catchable signal, detaches from the controlling tty, forks one    *)
(* child and then loops on sigwait(), handing each signal to               *)
(* handle_signal(): swallow (tty hand-off), reap (SIGCHLD) or forward.     *)
(*                                                                         *)
(* Two specifications:                                                     *)
(*   Spec       the process: run(), the signal loop, the child and the     *)
(*              other descendants, and the signals the environment sends;  *)
(*   TableSpec  the rewrite-table functions called on their own            *)
(*              (parse_rewrite_signum, translate_signal,                   *)
(*              set_rewrite_to_sigstop_if_not_defined, direct entries).    *)
(***************************************************************************)
EXTENDS Integers, Sequences, FiniteSets, TLC

VARIABLES
    pc,              \* where run() is: start, registered, detached, spawned,
                     \* wait (blocked in sigwait), dispatch (handle_signal
                     \* about to run), stopped, exited, crashed
    SIGMAP,          \* module global: signum -> replacement, -1 = no entry
    IGNORED_SIGMAP,  \* module global: signum -> ignore the next occurrence
    child_pid,       \* module global child_pid
    use_setsid,      \* module global use_setsid
    selfPid,         \* os.getpid() of the init process
    forkPid,         \* run()'s local child_pid: what os.fork() returned
    procs,           \* the children of the init process: pid -> [st, status]
    registered,      \* signals with the handler dummy installed
    signum,          \* run()'s local signum: what sigwait returned last
    branch,          \* the branch the last handle_signal call took
    kills,           \* the os.kill calls of the last handle_signal call
    reaped,          \* pid -> exit_status derived by the last handle_signal call
    exit_code,       \* the exit code of the init process, -1 while it runs
    exc,             \* the exception that ended the process, or "none"
    dummy_called,    \* dummy() has consumed a signal delivered outside sigwait
    exec_failed,     \* os.execvp raised in the child branch
    call             \* TableSpec: the last table function call and its outcome

vars == <<pc, SIGMAP, IGNORED_SIGMAP, child_pid, use_setsid, selfPid, forkPid,
          procs, registered, signum, branch, kills, reaped, exit_code, exc,
          dummy_called, exec_failed, call>>

-----------------------------------------------------------------------------
(* Program constants *)

MAXSIG == 31

SIGHUP == 1

SIGKILL == 9

SIGTERM == 15

SIGCHLD == 17

SIGCONT == 18

SIGSTOP == 19

SIGTSTP == 20

SIGTTIN == 21

SIGTTOU == 22

-----------------------------------------------------------------------------
(* Bounds of the model and the input sets *)

MaxOthers == 2

\* pids os.fork() may return
ForkPidInputs == {5}

\* pids of other descendants, re-parented to the init process when orphaned
OtherPids == 11 .. (10 + MaxOthers)

Pids == ForkPidInputs \cup OtherPids

\* os.getpid(): PID 1 of a container, or an ordinary process
SelfPidInputs == {1, 4}

\* wait statuses as the kernel encodes them: exit code << 8, or the
\* terminating signal in the low 7 bits
TrackedStatusInputs == {0, 7 * 256, SIGKILL, SIGTERM}

OtherStatusInputs == {SIGTERM}

\* rewrite entries a caller may have put in SIGMAP before run(), one per signal
RuleInputs ==
    {<<10, SIGSTOP>>, <<SIGTERM, 0>>, <<SIGHUP, SIGTERM>>, <<SIGCONT, 0>>,
     <<SIGTSTP, 3>>, <<SIGTTIN, 0>>, <<SIGTTOU, SIGSTOP>>}

-----------------------------------------------------------------------------
(* Module globals as loaded *)

SIGMAP0 == [s \in 1 .. MAXSIG |-> -1]

IGNORED_SIGMAP0 == [s \in 0 .. (MAXSIG - 1) |-> FALSE]

\* dict.get(key, default)
Get(map, key, default) == IF key \in DOMAIN map THEN map[key] ELSE default

RECURSIVE ApplyRules(_, _)
ApplyRules(map, rules) ==
    IF rules = {} THEN map
    ELSE LET r == CHOOSE x \in rules : TRUE
         IN ApplyRules([map EXCEPT ![r[1]] = r[2]], rules \ {r})

\* run() starts with the table as loaded, or with the caller's entries in it
InitTables == {SIGMAP0, ApplyRules(SIGMAP0, RuleInputs)}

-----------------------------------------------------------------------------
(* translate_signal, forward_signal *)

\* a lookup that forgets the "no entry" value -1
translate_signal_NoEntryCheck(map, s) ==
    IF s \in DOMAIN map THEN map[s] ELSE s

translate_signal(map, s) ==
    IF Get(map, s, -1) > 0 THEN map[s] ELSE s

\* the os.kill call forward_signal makes, <<>> when it makes none
forward_signal(map, cpid, setsid, s) ==
    LET t == translate_signal(map, s)
    IN IF t # 0
       THEN <<[by |-> "forward", target |-> IF setsid THEN -cpid ELSE cpid, sig |-> t]>>
       ELSE <<>>

SelfStop(self) == [by |-> "selfstop", target |-> self, sig |-> SIGSTOP]

-----------------------------------------------------------------------------
(* wait status macros *)

WIFEXITED(status) == status % 128 = 0

WEXITSTATUS(status) == (status \div 256) % 256

WTERMSIG(status) == status % 128

WIFSIGNALED(status) == status % 128 # 0 /\ status % 128 # 127

ExitStatus(status) ==
    IF WIFEXITED(status) THEN WEXITSTATUS(status) ELSE 128 + WTERMSIG(status)

NoProc == [st |-> "none", status |-> 0]

NoneReaped == [p \in {} |-> 0]

Zombies == {p \in Pids : procs[p].st = "zombie"}

Children == {p \in Pids : procs[p].st # "none"}

\* os.kill(target, sig) raises OSError when the kernel refuses:
\*   oneself                 never;
\*   PID 1 of the system     EPERM for an unprivileged caller;
\*   -1, every process       ESRCH when there is nobody else to signal;
\*   a pid                   ESRCH when no such process (a zombie still is one);
\*   -pgid, a process group  ESRCH while the leader has not called setsid, or
\*                           once the group is gone.
KillMayFail(k) ==
    IF k.target = selfPid THEN FALSE
    ELSE IF k.target = 1 THEN TRUE
    ELSE IF k.target = -1 THEN Children = {}
    ELSE IF k.target > 1
    THEN k.target \notin Pids \/ procs[k.target].st = "none"
    ELSE -k.target \notin Pids \/ procs[-k.target].st \in {"none", "forked"}

-----------------------------------------------------------------------------
(* Spec: run() *)

NoCall == [op |-> "none", arg |-> <<>>, num |-> 0, res |-> 0, exc |-> "none"]

Init ==
    /\ pc = "start"
    /\ SIGMAP \in InitTables
    /\ IGNORED_SIGMAP = IGNORED_SIGMAP0
    /\ child_pid = -1
    /\ use_setsid \in BOOLEAN
    /\ selfPid \in SelfPidInputs
    /\ forkPid = 0
    /\ procs = [p \in Pids |-> NoProc]
    /\ registered = {}
    /\ signum = 0
    /\ branch = "none"
    /\ kills = <<>>
    /\ reaped = NoneReaped
    /\ exit_code = -1
    /\ exc = "none"
    /\ dummy_called = FALSE
    /\ exec_failed = FALSE
    /\ call = NoCall

\* an uncaught exception ends the interpreter with exit code 1
Crash(e) ==
    /\ pc' = "crashed"
    /\ exc' = e
    /\ exit_code' = 1

\* a registration that does not skip SIGKILL and SIGSTOP
register_signals_NoSkip ==
    /\ pc = "start"
    /\ registered' = 1 .. MAXSIG
    /\ pc' = "registered"
    /\ UNCHANGED <<SIGMAP, IGNORED_SIGMAP, child_pid, use_setsid, selfPid, forkPid,
                   procs, signum, branch, kills, reaped, exit_code, exc,
                   dummy_called, exec_failed, call>>

register_signals ==
    /\ pc = "start"
    /\ registered' = {i \in 1 .. MAXSIG : i \notin {SIGKILL, SIGSTOP}}
    /\ pc' = "registered"
    /\ UNCHANGED <<SIGMAP, IGNORED_SIGMAP, child_pid, use_setsid, selfPid, forkPid,
                   procs, signum, branch, kills, reaped, exit_code, exc,
                   dummy_called, exec_failed, call>>

\* fcntl.ioctl(0, TIOCNOTTY) raises OSError when the kernel refuses
DetachFails ==
    /\ pc = "registered"
    /\ Crash("OSError")
    /\ UNCHANGED <<SIGMAP, IGNORED_SIGMAP, child_pid, use_setsid, selfPid, forkPid,
                   procs, registered, signum, branch, kills, reaped,
                   dummy_called, exec_failed, call>>

DetachLeader ==
    /\ pc = "registered"
    /\ IGNORED_SIGMAP' = [IGNORED_SIGMAP EXCEPT ![SIGHUP] = TRUE, ![SIGCONT] = TRUE]
    /\ pc' = "detached"
    /\ UNCHANGED <<SIGMAP, child_pid, use_setsid, selfPid, forkPid,
                   procs, registered, signum, branch, kills, reaped, exit_code, exc,
                   dummy_called, exec_failed, call>>

DetachNotLeader ==
    /\ pc = "registered"
    /\ pc' = "detached"
    /\ UNCHANGED <<SIGMAP, IGNORED_SIGMAP, child_pid, use_setsid, selfPid, forkPid,
                   procs, registered, signum, branch, kills, reaped, exit_code, exc,
                   dummy_called, exec_failed, call>>

\* a failed fork that goes on to the signal loop
ForkFails_EntersLoop ==
    /\ pc = "detached"
    /\ pc' = "spawned"
    /\ UNCHANGED <<SIGMAP, IGNORED_SIGMAP, child_pid, use_setsid, selfPid, forkPid,
                   procs, registered, signum, branch, kills, reaped, exit_code, exc,
                   dummy_called, exec_failed, call>>

\* os.fork() raises OSError when it fails
ForkFails ==
    /\ pc = "detached"
    /\ Crash("OSError")
    /\ UNCHANGED <<SIGMAP, IGNORED_SIGMAP, child_pid, use_setsid, selfPid, forkPid,
                   procs, registered, signum, branch, kills, reaped,
                   dummy_called, exec_failed, call>>

\* the parent's side of os.fork(): the pid goes to run()'s local child_pid
Fork ==
    /\ pc = "detached"
    /\ \E p \in ForkPidInputs :
          /\ forkPid' = p
          /\ procs' = [procs EXCEPT ![p] = [st |-> "forked", status |-> 0]]
    /\ pc' = "spawned"
    /\ UNCHANGED <<SIGMAP, IGNORED_SIGMAP, child_pid, use_setsid, selfPid,
                   registered, signum, branch, kills, reaped, exit_code, exc,
                   dummy_called, exec_failed, call>>

\* the parent reaches signal.sigwait(set(SIGMAP.keys())) and blocks
EnterLoop ==
    /\ pc = "spawned"
    /\ pc' = "wait"
    /\ UNCHANGED <<SIGMAP, IGNORED_SIGMAP, child_pid, use_setsid, selfPid, forkPid,
                   procs, registered, signum, branch, kills, reaped, exit_code, exc,
                   dummy_called, exec_failed, call>>

-----------------------------------------------------------------------------
(* The environment: signals sent to the init process, the child and the    *)
(* other descendants                                                       *)

Running == pc \in {"spawned", "wait", "dispatch", "stopped"}

\* what the kernel can deliver to a handler or to sigwait: never SIGKILL, SIGSTOP
Catchable == (1 .. MAXSIG) \ {SIGKILL, SIGSTOP}

\* set(SIGMAP.keys()), the set handed to signal.sigwait
WaitSet == DOMAIN SIGMAP

\* signal.sigwait(set(SIGMAP.keys())) returns s: handle_signal(s) is next
Sigwait(s) ==
    /\ pc = "wait"
    /\ s \in WaitSet
    /\ s \in Catchable
    /\ pc' = "dispatch"
    /\ signum' = s
    /\ branch' = "none"
    /\ kills' = <<>>
    /\ reaped' = NoneReaped
    /\ UNCHANGED <<SIGMAP, IGNORED_SIGMAP, child_pid, use_setsid, selfPid, forkPid,
                   procs, registered, exit_code, exc, dummy_called, exec_failed, call>>

\* a signal that arrives while the process is not blocked in sigwait is not
\* blocked either (no sigmask is set): the installed handler dummy consumes it
SignalOutsideWait(s) ==
    /\ pc \in {"spawned", "dispatch"}
    /\ s \in registered
    /\ ~dummy_called
    /\ dummy_called' = TRUE
    /\ UNCHANGED <<pc, SIGMAP, IGNORED_SIGMAP, child_pid, use_setsid, selfPid, forkPid,
                   procs, registered, signum, branch, kills, reaped, exit_code, exc,
                   exec_failed, call>>

\* child p terminates: it stays a zombie until waited for, and the kernel
\* sends SIGCHLD to the init process
Dies(p, status) ==
    /\ procs' = [procs EXCEPT ![p] = [st |-> "zombie", status |-> status]]
    /\ IF pc = "wait"
       THEN /\ pc' = "dispatch"
            /\ signum' = SIGCHLD
            /\ branch' = "none"
            /\ kills' = <<>>
            /\ reaped' = NoneReaped
            /\ UNCHANGED dummy_called
       ELSE /\ dummy_called' = TRUE
            /\ UNCHANGED <<pc, signum, branch, kills, reaped>>
    /\ UNCHANGED <<SIGMAP, IGNORED_SIGMAP, child_pid, use_setsid, selfPid, forkPid,
                   registered, exit_code, exc, call>>

\* the child's side of os.fork(): os.setsid() if use_setsid, then os.execvp
ChildExec ==
    /\ Running
    /\ forkPid # 0
    /\ procs[forkPid].st = "forked"
    /\ procs' = [procs EXCEPT ![forkPid].st = "running"]
    /\ UNCHANGED <<pc, SIGMAP, IGNORED_SIGMAP, child_pid, use_setsid, selfPid, forkPid,
                   registered, signum, branch, kills, reaped, exit_code, exc,
                   dummy_called, exec_failed, call>>

\* os.execvp raises OSError in the child: the exception leaves run() and
\* main(), and the child's interpreter exits with code 1
ChildExecFails ==
    /\ Running
    /\ forkPid # 0
    /\ procs[forkPid].st = "forked"
    /\ exec_failed' = TRUE
    /\ Dies(forkPid, 1 * 256)

ProcDies(p, status) ==
    /\ Running
    /\ procs[p].st \in {"forked", "running"}
    /\ status \in (IF p = forkPid THEN TrackedStatusInputs ELSE OtherStatusInputs)
    /\ UNCHANGED exec_failed
    /\ Dies(p, status)

\* an orphaned descendant is re-parented to PID 1
Adopt(p) ==
    /\ Running
    /\ selfPid = 1
    /\ p \in OtherPids
    /\ procs[p].st = "none"
    /\ procs' = [procs EXCEPT ![p] = [st |-> "running", status |-> 0]]
    /\ UNCHANGED <<pc, SIGMAP, IGNORED_SIGMAP, child_pid, use_setsid, selfPid, forkPid,
                   registered, signum, branch, kills, reaped, exit_code, exc,
                   dummy_called, exec_failed, call>>

\* SIGCONT continues the stopped process inside handle_signal; dummy consumes it
Resume ==
    /\ pc = "stopped"
    /\ pc' = "wait"
    /\ dummy_called' = TRUE
    /\ UNCHANGED <<SIGMAP, IGNORED_SIGMAP, child_pid, use_setsid, selfPid, forkPid,
                   procs, registered, signum, branch, kills, reaped, exit_code, exc,
                   exec_failed, call>>

-----------------------------------------------------------------------------
(* handle_signal *)

TtySignals == {SIGTSTP, SIGTTOU, SIGTTIN}

\* a swallow that leaves the flag armed
ClearIgnored_Kept(ign, s) == ign

\* IGNORED_SIGMAP[signum] = False
ClearIgnored(ign, s) == [ign EXCEPT ![s] = FALSE]

\* IGNORED_SIGMAP[signum] raises KeyError for a key the dict does not hold
HandleKeyError ==
    /\ pc = "dispatch"
    /\ signum \notin DOMAIN IGNORED_SIGMAP
    /\ Crash("KeyError")
    /\ UNCHANGED <<SIGMAP, IGNORED_SIGMAP, child_pid, use_setsid, selfPid, forkPid,
                   procs, registered, signum, branch, kills, reaped,
                   dummy_called, exec_failed, call>>

HandleIgnored ==
    /\ pc = "dispatch"
    /\ signum \in DOMAIN IGNORED_SIGMAP
    /\ IGNORED_SIGMAP[signum]
    /\ IGNORED_SIGMAP' = ClearIgnored(IGNORED_SIGMAP, signum)
    /\ branch' = "swallow"
    /\ pc' = "wait"
    /\ UNCHANGED <<SIGMAP, child_pid, use_setsid, selfPid, forkPid,
                   procs, registered, signum, kills, reaped, exit_code, exc,
                   dummy_called, exec_failed, call>>

\* the waitpid(-1, WNOHANG) loop: the pids it reaps, and whether it stopped
\* at killed_pid == child_pid; the kernel picks the order
DrainOutcomes(cpid, zombies) ==
    IF cpid \in zombies
    THEN {[reap |-> R \cup {cpid}, hit |-> TRUE] : R \in SUBSET (zombies \ {cpid})}
    ELSE {[reap |-> zombies, hit |-> FALSE]}

HandleSIGCHLD ==
    /\ pc = "dispatch"
    /\ signum \in DOMAIN IGNORED_SIGMAP
    /\ ~IGNORED_SIGMAP[signum]
    /\ signum = SIGCHLD
    /\ branch' = "reap"
    /\ \E o \in DrainOutcomes(child_pid, Zombies) :
          /\ reaped' = [p \in o.reap |-> ExitStatus(procs[p].status)]
          /\ procs' = [p \in Pids |-> IF p \in o.reap THEN NoProc ELSE procs[p]]
          /\ IF o.hit
             THEN LET fwd == forward_signal(SIGMAP, child_pid, use_setsid, SIGTERM)
                  IN /\ kills' = fwd
                     /\ \E ok \in (IF fwd # <<>> /\ KillMayFail(fwd[1])
                                   THEN BOOLEAN ELSE {TRUE}) :
                           IF ok
                           THEN /\ pc' = "exited"
                                /\ exit_code' = ExitStatus(procs[child_pid].status)
                                /\ UNCHANGED exc
                           ELSE Crash("OSError")
             ELSE /\ kills' = <<>>
                  \* waitpid raises ChildProcessError (ECHILD) with no child left
                  /\ IF Children \ o.reap = {}
                     THEN Crash("ChildProcessError")
                     ELSE /\ pc' = "wait"
                          /\ UNCHANGED <<exit_code, exc>>
    /\ UNCHANGED <<SIGMAP, IGNORED_SIGMAP, child_pid, use_setsid, selfPid, forkPid,
                   registered, signum, dummy_called, exec_failed, call>>

HandleForward ==
    /\ pc = "dispatch"
    /\ signum \in DOMAIN IGNORED_SIGMAP
    /\ ~IGNORED_SIGMAP[signum]
    /\ signum # SIGCHLD
    /\ branch' = "forward"
    /\ LET fwd == forward_signal(SIGMAP, child_pid, use_setsid, signum)
       IN IF signum \in TtySignals
          THEN /\ kills' = fwd \o <<SelfStop(selfPid)>>
               \* PID 1 is shielded from a SIGSTOP sent inside its namespace
               /\ pc' = IF selfPid = 1 THEN "wait" ELSE "stopped"
          ELSE /\ kills' = fwd
               /\ pc' = "wait"
    /\ UNCHANGED <<SIGMAP, IGNORED_SIGMAP, child_pid, use_setsid, selfPid, forkPid,
                   procs, registered, signum, reaped, exit_code, exc,
                   dummy_called, exec_failed, call>>

\* os.kill in forward_signal raises: the exception leaves handle_signal and run()
HandleForwardRaises ==
    /\ pc = "dispatch"
    /\ signum \in DOMAIN IGNORED_SIGMAP
    /\ ~IGNORED_SIGMAP[signum]
    /\ signum # SIGCHLD
    /\ branch' = "forward"
    /\ LET fwd == forward_signal(SIGMAP, child_pid, use_setsid, signum)
       IN /\ fwd # <<>>
          /\ KillMayFail(fwd[1])
          /\ kills' = fwd
    /\ Crash("OSError")
    /\ UNCHANGED <<SIGMAP, IGNORED_SIGMAP, child_pid, use_setsid, selfPid, forkPid,
                   procs, registered, signum, reaped, dummy_called, exec_failed, call>>

Next ==
    \/ register_signals
    \/ DetachFails
    \/ DetachLeader
    \/ DetachNotLeader
    \/ ForkFails
    \/ Fork
    \/ EnterLoop
    \/ \E s \in 1 .. MAXSIG : Sigwait(s)
    \/ \E s \in 1 .. MAXSIG : SignalOutsideWait(s)
    \/ ChildExec
    \/ ChildExecFails
    \/ \E p \in Pids, status \in TrackedStatusInputs \cup OtherStatusInputs : ProcDies(p, status)
    \/ \E p \in OtherPids : Adopt(p)
    \/ Resume
    \/ HandleKeyError
    \/ HandleIgnored
    \/ HandleSIGCHLD
    \/ HandleForward
    \/ HandleForwardRaises

Spec == Init /\ [][Next]_vars

-----------------------------------------------------------------------------
(* TableSpec: the rewrite-table functions, called on their own.  Strings   *)
(* are sequences of one-character strings.                                 *)

MaxEntries == 2

Digits == <<"0", "1", "2", "3", "4", "5", "6", "7", "8", "9">>

\* str(n)
RECURSIVE Str(_)
Str(n) ==
    IF n < 0 THEN <<"-">> \o Str(-n)
    ELSE IF n < 10 THEN <<Digits[n + 1]>>
    ELSE Str(n \div 10) \o <<Digits[(n % 10) + 1]>>

\* arg.split(":")
RECURSIVE split(_)
split(arg) ==
    IF arg = <<>> THEN << <<>> >>
    ELSE IF Head(arg) = ":" THEN << <<>> >> \o split(Tail(arg))
    ELSE LET rest == split(Tail(arg))
         IN << <<Head(arg)>> \o Head(rest) >> \o Tail(rest)

Colon(a, b) == a \o <<":">> \o b

\* signum, replacement = arg.split(":") raises ValueError unless there are
\* exactly two parts, and except ValueError catches it.  With two parts,
\* signum is a str and `signum < 1` raises TypeError, which nothing catches;
\* the assignment SIGMAP[signum] = replacement is never reached.
parse_rewrite_signum(map, arg) ==
    IF Len(split(arg)) # 2
    THEN [SIGMAP |-> map, exc |-> "none"]
    ELSE [SIGMAP |-> map, exc |-> "TypeError"]

\* a default that also overwrites an explicit suppress entry
set_rewrite_to_sigstop_if_not_defined_ZeroUnset(map, s) ==
    IF map[s] <= 0 THEN [map EXCEPT ![s] = SIGSTOP] ELSE map

set_rewrite_to_sigstop_if_not_defined(map, s) ==
    IF map[s] = -1 THEN [map EXCEPT ![s] = SIGSTOP] ELSE map

\* entries that differ from the table as loaded
Entries(map) == {s \in DOMAIN map : map[s] # -1}

OldInputs == {-1, 0, 1, 5, 14, MAXSIG, MAXSIG + 1}

NewInputs == {-1, 0, 3, 6, MAXSIG, MAXSIG + 1}

MalformedArgs ==
    {<<>>, <<"5">>, <<":">>, <<"x", ":", "y">>, <<"5", ":", "x">>,
     Colon(Colon(Str(5), Str(6)), Str(7))}

ArgInputs == {Colon(Str(o), Str(n)) : o \in OldInputs, n \in NewInputs} \cup MalformedArgs

TranslateInputs == -1 .. (MAXSIG + 1)

AssignInputs == RuleInputs \cup {<<14, 3>>, <<5, 0>>, <<5, 6>>}

SigstopInputs == TtySignals \cup {SIGTERM}

TableInit ==
    /\ pc = "start"
    /\ SIGMAP = SIGMAP0
    /\ IGNORED_SIGMAP = IGNORED_SIGMAP0
    /\ child_pid = -1
    /\ use_setsid = TRUE
    /\ selfPid = 1
    /\ forkPid = 0
    /\ procs = [p \in Pids |-> NoProc]
    /\ registered = {}
    /\ signum = 0
    /\ branch = "none"
    /\ kills = <<>>
    /\ reaped = NoneReaped
    /\ exit_code = -1
    /\ exc = "none"
    /\ dummy_called = FALSE
    /\ exec_failed = FALSE
    /\ call = NoCall

ProcessUnchanged ==
    UNCHANGED <<pc, IGNORED_SIGMAP, child_pid, use_setsid, selfPid, forkPid, procs,
                registered, signum, branch, kills, reaped, exit_code, exc, dummy_called,
                exec_failed>>

ParseRewriteSignum(arg) ==
    /\ LET r == parse_rewrite_signum(SIGMAP, arg)
       IN /\ SIGMAP' = r.SIGMAP
          /\ call' = [op |-> "parse", arg |-> arg, num |-> 0, res |-> 0, exc |-> r.exc]
    /\ ProcessUnchanged

TranslateSignal(s) ==
    /\ call' = [op |-> "translate", arg |-> <<>>, num |-> s,
                res |-> translate_signal(SIGMAP, s), exc |-> "none"]
    /\ UNCHANGED SIGMAP
    /\ ProcessUnchanged

SetRewriteToSigstopIfNotDefined(s) ==
    /\ s \in Entries(SIGMAP) \/ Cardinality(Entries(SIGMAP)) < MaxEntries
    /\ SIGMAP' = set_rewrite_to_sigstop_if_not_defined(SIGMAP, s)
    /\ call' = [op |-> "sigstop", arg |-> <<>>, num |-> s, res |-> 0, exc |-> "none"]
    /\ ProcessUnchanged

\* SIGMAP[old] = new, written by the caller
AssignRewrite(old, new) ==
    /\ old \in Entries(SIGMAP) \/ Cardinality(Entries(SIGMAP)) < MaxEntries
    /\ SIGMAP' = [SIGMAP EXCEPT ![old] = new]
    /\ call' = [op |-> "assign", arg |-> <<>>, num |-> old, res |-> new, exc |-> "none"]
    /\ ProcessUnchanged

TableNext ==
    \/ \E arg \in ArgInputs : ParseRewriteSignum(arg)
    \/ \E s \in TranslateInputs : TranslateSignal(s)
    \/ \E s \in SigstopInputs : SetRewriteToSigstopIfNotDefined(s)
    \/ \E r \in AssignInputs : AssignRewrite(r[1], r[2])

TableSpec == TableInit /\ [][TableNext]_vars

-----------------------------------------------------------------------------
(* Properties of the process (Spec) *)

\* the init process has ended, by sys.exit or by an uncaught exception
Terminated == pc \in {"exited", "crashed"}

ForwardKills == {i \in 1 .. Len(kills) : kills[i].by = "forward"}

SelfStopKills == {i \in 1 .. Len(kills) : kills[i].by = "selfstop"}

\* C1: when handle_signal(SIGCHLD) reaps the child that run() forked, the
\* init process exits, and its exit code is that child's derived exit status
\* (its exit code, or 128 + the signal that killed it).
C1_TrackedChildReapedExits ==
    (branch = "reap" /\ forkPid \in DOMAIN reaped)
        => (Terminated /\ exit_code = reaped[forkPid])

\* C2: every os.kill of forward_signal is addressed to the forked child: to
\* -P, its process group, when use_setsid, and to P otherwise, P being the
\* pid os.fork() returned.
C2_ForwardTargetsTrackedChild ==
    \A i \in ForwardKills :
        kills[i].target = (IF use_setsid THEN -forkPid ELSE forkPid)

\* C3: with the child in its own session and SIGTERM not rewritten, a SIGTERM
\* handled by the loop is forwarded as SIGTERM to the child's process group,
\* and once the child, killed by it (status 143), is reaped the init process
\* has exited with code 143.
C3_SigtermEndToEnd ==
    /\ (use_setsid /\ SIGMAP[SIGTERM] = -1 /\ signum = SIGTERM /\ branch = "forward")
          => (Len(kills) >= 1
              /\ kills[1] = [by |-> "forward", target |-> -forkPid, sig |-> SIGTERM])
    /\ (use_setsid /\ branch = "reap" /\ forkPid \in DOMAIN reaped
          /\ reaped[forkPid] = 128 + SIGTERM)
          => (Terminated /\ exit_code = 128 + SIGTERM)

\* C6: a signal whose table entry is 0 is suppressed: translate_signal gives
\* 0 for it and forwarding it sends nothing.
C6_SuppressedNotForwarded ==
    (branch = "forward" /\ Get(SIGMAP, signum, -1) = 0)
        => (translate_signal(SIGMAP, signum) = 0 /\ ForwardKills = {})

\* C8: a handle_signal(SIGCHLD) call that finds N >= 1 dead descendants, none
\* of them the forked child, reaps them all and returns to the wait with no
\* dead descendant left pending; the init process does not end.
C8_DrainsOthersAndKeepsRunning ==
    (branch = "reap" /\ DOMAIN reaped # {} /\ forkPid \notin DOMAIN reaped)
        => (pc = "wait" /\ Zombies = {})

\* C9: handle_signal swallows SIGHUP (SIGCONT) exactly when its ignore-once
\* flag is armed: it then sends nothing and clears the flag; with the flag
\* clear the signal takes the forward branch like any other signal; and once
\* run() has armed the flags no step arms a flag again.
C9_IgnoreOnce ==
    [][/\ (pc = "dispatch" /\ signum \in {SIGHUP, SIGCONT} /\ branch' # "none")
            => IF IGNORED_SIGMAP[signum]
               THEN /\ branch' = "swallow"
                    /\ kills' = <<>>
                    /\ ~IGNORED_SIGMAP'[signum]
                    /\ pc' = "wait"
               ELSE /\ branch' = "forward"
                    /\ Len(kills') >= 1
                    /\ kills'[1].by = "forward"
                    /\ kills'[1].sig = translate_signal(SIGMAP, signum)
       /\ (pc \notin {"start", "registered"})
            => \A s \in DOMAIN IGNORED_SIGMAP : IGNORED_SIGMAP'[s] => IGNORED_SIGMAP[s]
      ]_vars

\* a second SIGHUP forwarded after the first one was swallowed (SIGCONT's
\* flag, armed together with SIGHUP's, is still set)
C9_Witness ==
    /\ signum = SIGHUP
    /\ branch = "forward"
    /\ ~IGNORED_SIGMAP[SIGHUP]
    /\ IGNORED_SIGMAP[SIGCONT]
    /\ Len(kills) = 1

\* C10: a handle_signal call that forwards SIGTSTP, SIGTTOU or SIGTTIN ends
\* with exactly one SIGSTOP sent to the init process itself, after the
\* forward; a call for any other signal sends itself no SIGSTOP.
C10_TtySignalStopsSelfOnce ==
    (branch = "forward")
        => IF signum \in TtySignals
           THEN /\ Cardinality(SelfStopKills) = 1
                /\ kills[Len(kills)] = SelfStop(selfPid)
                /\ ForwardKills = {i \in 1 .. (Len(kills) - 1) : TRUE}
           ELSE SelfStopKills = {}

\* C11: when os.execvp fails in the child branch, the child ends with exit
\* code 2, and the init process, reaping it in handle_signal(SIGCHLD), exits
\* with code 2.
C11_ExecFailureExitsTwo ==
    exec_failed
        => /\ procs[forkPid].st = "zombie"
                => ExitStatus(procs[forkPid].status) = 2
           /\ forkPid \in DOMAIN reaped
                => (reaped[forkPid] = 2 /\ pc = "exited" /\ exit_code = 2)

\* C12: a failing os.fork() ends the init process at once with exit code 1:
\* no child exists, the fork is not tried again and the signal loop is not
\* entered; nothing happens after it.
C12_ForkFailureExitsOne ==
    [][/\ (pc = "detached" /\ pc' # "detached" /\ forkPid' = 0)
            => /\ Terminated'
               /\ exit_code' = 1
               /\ Children' = {}
               /\ signum' = 0
       /\ (Terminated /\ forkPid = 0) => UNCHANGED vars
      ]_vars

\* the fork failed after the detach had armed the ignore-once flags
C12_Witness ==
    /\ pc = "crashed"
    /\ exit_code = 1
    /\ forkPid = 0
    /\ registered # {}
    /\ IGNORED_SIGMAP[SIGHUP]

\* C13: a failing detach from the controlling terminal does not end run():
\* it arms no ignore-once flag and run() goes on to the fork.
C13_DetachFailureContinues ==
    [][(pc = "registered" /\ exc' # "none")
            => (pc' = "detached" /\ IGNORED_SIGMAP' = IGNORED_SIGMAP)
      ]_vars

\* C14: once the child is forked, the init process ends only in a
\* handle_signal(SIGCHLD) call that reaped the forked child: no forward, no
\* other SIGCHLD and no signal number 1..MAXSIG ends or crashes it.
C14_LoopEndsOnlyByTrackedReap ==
    (forkPid # 0 /\ Terminated)
        => (signum = SIGCHLD /\ branch = "reap" /\ forkPid \in DOMAIN reaped
            /\ exc = "none")

\* C15: the handle_signal(SIGCHLD) call that reaps the forked child sends
\* SIGTERM through forward_signal before it ends, whatever SIGMAP holds for
\* SIGTERM and whether or not anyone is left to receive it, and the init
\* process then exits with the child's derived exit status.
C15_FinalReapForwardsSigterm ==
    (branch = "reap" /\ forkPid \in DOMAIN reaped)
        => /\ Len(kills) = 1
           /\ kills[1].by = "forward"
           /\ kills[1].sig = SIGTERM
           /\ pc = "exited"
           /\ exit_code = reaped[forkPid]

\* C16, as the specification states it: the signals registered and the
\* signals waited on are both exactly 1..MAXSIG without SIGKILL and SIGSTOP,
\* and neither of the two is dispatched to handle_signal.
C16_RegisteredAndWaitedExcludeKillStop ==
    /\ pc # "start" => registered = (1 .. MAXSIG) \ {SIGKILL, SIGSTOP}
    /\ pc = "wait" => WaitSet = (1 .. MAXSIG) \ {SIGKILL, SIGSTOP}
    /\ signum \notin {SIGKILL, SIGSTOP}

\* C16, amended: the signals registered are exactly 1..MAXSIG without
\* SIGKILL and SIGSTOP; the set handed to sigwait is all of 1..MAXSIG, the
\* two included; neither of the two is ever registered or dispatched to
\* handle_signal.
C16_RegisteredExcludeKillStop ==
    /\ pc # "start" => registered = (1 .. MAXSIG) \ {SIGKILL, SIGSTOP}
    /\ pc = "wait" => WaitSet = 1 .. MAXSIG
    /\ signum \notin {SIGKILL, SIGSTOP}

\* the loop has dispatched a signal and is blocked again on a set that
\* holds SIGKILL and SIGSTOP, neither of them registered
C16_Witness ==
    /\ pc = "wait"
    /\ signum # 0
    /\ {SIGKILL, SIGSTOP} \subseteq WaitSet
    /\ {SIGKILL, SIGSTOP} \cap registered = {}
    /\ registered # {}

\* C18: no registered signal sent to the init process is consumed by an
\* asynchronous handler: one that arrives while the process is not blocked in
\* sigwait (a SIGCHLD for a death during a drain included) stays pending for
\* the next sigwait.
C18_NoSignalConsumedOutsideLoop ==
    ~dummy_called

\* C19: handle_signal raises no KeyError: every signum in 1..MAXSIG, 31
\* included, has an IGNORED_SIGMAP entry and ends in exactly one of the
\* branches swallow, reap, forward; only SIGHUP's and SIGCONT's flags are
\* ever set.
C19_HandleSignalTotal ==
    /\ pc = "dispatch" => signum \in DOMAIN IGNORED_SIGMAP
    /\ exc # "KeyError"
    /\ (signum # 0 /\ pc # "dispatch") => branch \in {"swallow", "reap", "forward"}
    /\ \A s \in DOMAIN IGNORED_SIGMAP : IGNORED_SIGMAP[s] => s \in {SIGHUP, SIGCONT}

-----------------------------------------------------------------------------
(* Properties of the rewrite table (TableSpec) *)

ValidArgs == {Colon(Str(o), Str(n)) : o \in 1 .. MAXSIG, n \in 0 .. MAXSIG}

\* C4: after parse_rewrite_signum("old:new") with old and new in 1..MAXSIG,
\* SIGMAP[old] is new and translate_signal(old) is new.
C4_ParseInstallsMapping ==
    \A o \in 1 .. MAXSIG, n \in 1 .. MAXSIG :
        (call.op = "parse" /\ call.arg = Colon(Str(o), Str(n)))
            => (SIGMAP[o] = n /\ translate_signal(SIGMAP, o) = n)

\* C5: translate_signal(signum) of a signum without a table entry, in or out
\* of 1..MAXSIG, is signum, and the call leaves the table as it was.
C5_TranslateNoEntryIsIdentity ==
    [][(call'.op = "translate" /\ Get(SIGMAP, call'.num, -1) = -1)
            => (call'.res = call'.num /\ SIGMAP' = SIGMAP)
      ]_vars

\* translate_signal(-1) returned -1
C5_Witness ==
    /\ call.op = "translate"
    /\ call.num = -1
    /\ call.res = -1

\* C7: parse_rewrite_signum of an entry that is malformed or out of range
\* leaves every table entry as it was and raises nothing.
C7_RejectedEntryNoChangeNoRaise ==
    [][(call'.op = "parse" /\ call'.arg \notin ValidArgs)
            => (SIGMAP' = SIGMAP /\ call'.exc = "none")
      ]_vars

\* C17: set_rewrite_to_sigstop_if_not_defined(signum) sets SIGMAP[signum] to
\* SIGSTOP when signum has no entry (-1) and leaves an explicit entry, 0
\* included, as it is; no other signal's entry changes.
C17_SigstopDefaultOnlyWhenUndefined ==
    [][call'.op = "sigstop"
            => LET s == call'.num
               IN /\ SIGMAP'[s] = (IF SIGMAP[s] = -1 THEN SIGSTOP ELSE SIGMAP[s])
                  /\ \A t \in DOMAIN SIGMAP \ {s} : SIGMAP'[t] = SIGMAP[t]
                  /\ DOMAIN SIGMAP' = DOMAIN SIGMAP
      ]_vars

\* the call on a signal whose entry is the explicit suppress, 0, kept it
C17_Witness ==
    /\ call.op = "sigstop"
    /\ SIGMAP[call.num] = 0

====
